---- MODULE Spec2Model ----
(***************************************************************************)
(* instagram-cli: session manager (auth.py) and retry-wrapped gateway      *)
(* (client.py), as a state machine of one process running one operation    *)
(* at a time against a nondeterministic remote service and file system.    *)
(***************************************************************************)
EXTENDS Integers, Sequences, FiniteSets, TLC

VARIABLES
  session_file,   \* the session file: [exists, content, mode]
  issued,         \* number of session tokens the remote service has issued
  _client,        \* InstaClient._client: the cached handle, or None
  pc,             \* position of the process in the code
  stack,          \* return positions of the callers
  ret,            \* what the last finished call returned or raised
  op,             \* the operation in progress
  limit,          \* argument `limit` of search_users / get_feed
  photo,          \* argument `photo_path` of post_photo: [exists, suffix]
  client,         \* the local `client` of is_authenticated / login / get_client
  func,           \* _retry_on_rate_limit: the wrapped remote function
  attempt,        \* _retry_on_rate_limit: loop variable `attempt`
  retry_delay,    \* _retry_on_rate_limit: local `retry_delay`
  payload,        \* value the last successful remote call returned
  results,        \* the list an operation returns
  trace,          \* history: remote calls, sleeps and file operations, in order
  console,        \* history: messages printed by the current operation
  start_file,     \* history: the session file when the operation started
  logged_out,     \* history: the process's previous operation was a logout that returned
  cmd,            \* the CLI command in progress, "" for a direct call
  peer_pc,        \* position of a second process, which runs logout
  peer_ret        \* what the second process's logout returned or raised

vars == <<session_file, issued, _client, pc, stack, ret, op, limit, photo,
          client, func, attempt, retry_delay, payload, results, trace,
          console, start_file, logged_out, cmd, peer_pc, peer_ret>>

----------------------------------------------------------------------------
(* Bounds of the model *)

MaxFeedItems == 8
MaxUsers == 3
MaxLimit == 6
MaxNegLimit == 1
MaxSessions == 2

(* Program constants *)

max_retries_4 == 3 + 1

max_retries == 3
InitialDelay == 5

----------------------------------------------------------------------------
(* Values *)

RemoteErrors ==
  {"RateLimitError", "LoginRequired", "BadPassword", "TwoFactorRequired",
   "ChallengeRequired", "ClientError"}

Outcomes == {"ok"} \cup RemoteErrors

NoBlob == [auth |-> 0, base |-> 0]
Corrupt == [auth |-> -1, base |-> -1]

Absent == [exists |-> FALSE, content |-> NoBlob, mode |-> "none"]

None == [live |-> FALSE, settings |-> NoBlob]

NoRet == [kind |-> "none", val |-> "", msg |-> ""]

NoPhoto == [exists |-> FALSE, suffix |-> <<>>]

RECURSIVE SeqsUpTo(_, _)
SeqsUpTo(S, n) ==
  IF n = 0 THEN {<<>>}
  ELSE LET shorter == SeqsUpTo(S, n - 1)
       IN shorter \cup {Append(s, x) : s \in {t \in shorter : Len(t) = n - 1}, x \in S}

\* a feed page: 1 marks an item with a 'media_or_ad' key, 0 an item without
FeedPages == SeqsUpTo({0, 1}, MaxFeedItems)

\* a search result: users 1..n in remote order
UserLists == {[i \in 1..n |-> i] : n \in 0..MaxUsers}

Limits == (0 - MaxNegLimit)..MaxLimit

Suffixes ==
  {<<>>, <<".", "j", "p", "g">>, <<".", "J", "P", "G">>, <<".", "j", "p", "e", "g">>,
   <<".", "J", "p", "e", "G">>, <<".", "p", "n", "g">>, <<".", "P", "n", "g">>,
   <<".", "g", "i", "f">>, <<".", "G", "I", "F">>, <<".", "j", "p">>}

Photos == [exists : BOOLEAN, suffix : Suffixes]

----------------------------------------------------------------------------
(* History events *)

CallEv(fn, out) == [ev |-> "call", fn |-> fn, out |-> out, d |-> 0]
SleepEv(d) == [ev |-> "sleep", fn |-> "time.sleep", out |-> "ok", d |-> d]
EnterEv(fn) == [ev |-> "enter", fn |-> fn, out |-> "ok", d |-> 0]
FsEv(fn, out) == [ev |-> "fs", fn |-> fn, out |-> out, d |-> 0]

Msg(level, text) == [level |-> level, text |-> text]

----------------------------------------------------------------------------
(* Control: call, return, raise *)

Goto(l) == pc' = l /\ UNCHANGED <<stack, ret>>

Call(l, cont) == pc' = l /\ stack' = <<cont>> \o stack /\ UNCHANGED ret

Return(v) ==
  /\ pc' = Head(stack)
  /\ stack' = Tail(stack)
  /\ ret' = [kind |-> "return", val |-> v, msg |-> ""]

Raise(e, m) ==
  /\ pc' = Head(stack)
  /\ stack' = Tail(stack)
  /\ ret' = [kind |-> "raise", val |-> e, msg |-> m]

Say(ms) == console' = console \o ms

Log(evs) == trace' = trace \o evs

----------------------------------------------------------------------------
(* Pure functions of the code *)

Min(a, b) == IF a < b THEN a ELSE b
Max(a, b) == IF a > b THEN a ELSE b

\* Python's s[:n]
SliceTo(s, n) ==
  IF n >= 0 THEN SubSeq(s, 1, Min(n, Len(s)))
  ELSE SubSeq(s, 1, Max(Len(s) + n, 0))

RECURSIVE SelectIdx(_, _)
\* the positions i of s, from i on, at which s[i] = 1, in order
SelectIdx(s, i) ==
  IF i > Len(s) THEN <<>>
  ELSE IF s[i] = 1 THEN <<i>> \o SelectIdx(s, i + 1)
  ELSE SelectIdx(s, i + 1)

\* get_feed's loop: slice the page to `limit`, keep the items with 'media_or_ad'
FeedPosts(page, n) == SelectIdx(SliceTo(page, n), 1)

\* search_users' loop: users[:limit]
SearchResults(users, n) == SliceTo(users, n)

LowerChar(c) ==
  CASE c = "J" -> "j"
    [] c = "P" -> "p"
    [] c = "G" -> "g"
    [] c = "E" -> "e"
    [] c = "N" -> "n"
    [] c = "I" -> "i"
    [] c = "F" -> "f"
    [] OTHER -> c

\* str.lower()
Lower(s) == [i \in 1..Len(s) |-> LowerChar(s[i])]

AllowedSuffixes ==
  {<<".", "j", "p", "g">>, <<".", "j", "p", "e", "g">>, <<".", "p", "n", "g">>}

SuffixAllowed_WithGif(s) ==
  Lower(s) \in AllowedSuffixes \cup {<<".", "g", "i", "f">>}

\* photo_file.suffix.lower() in ['.jpg', '.jpeg', '.png']
SuffixAllowed(s) == Lower(s) \in AllowedSuffixes

NextDelay_NoBackoff(d) == d

\* retry_delay *= 2
NextDelay(d) == d * 2

\* attempt < max_retries - 1
ShouldRetry(a) == a < max_retries - 1

IsRateLimit_AnyClientError(e) == e \in {"RateLimitError", "ClientError"}

\* except RateLimitError
IsRateLimit(e) == e = "RateLimitError"

\* what Client.load_settings(session_file) can do
ReadOutcomes(f) ==
  IF ~f.exists THEN {"FileNotFoundError"}
  ELSE IF f.content = Corrupt THEN {"JSONDecodeError"}
  ELSE {"ok", "OSError"}

\* Client(): a client with no settings
NewClient == [live |-> TRUE, settings |-> NoBlob]

\* client.load_settings(session_file), when it succeeds
Hydrated(f) == [live |-> TRUE, settings |-> f.content]

\* what the remote call of `fn` can return
Payloads(fn) ==
  CASE fn = "get_timeline_feed" -> FeedPages
    [] fn = "search_users" -> UserLists
    [] OTHER -> {<<1>>}

----------------------------------------------------------------------------
(* The initial state: an idle process, the session file absent, unparsable  *)
(* or holding the session of an earlier login.                             *)

InitFiles ==
  {Absent,
   [exists |-> TRUE, content |-> Corrupt, mode |-> "644"],
   [exists |-> TRUE, content |-> [auth |-> 1, base |-> 0], mode |-> "600"]}

Init ==
  /\ session_file \in InitFiles
  /\ issued = 1
  /\ _client = None
  /\ pc = "idle"
  /\ stack = <<>>
  /\ ret = NoRet
  /\ op = "idle"
  /\ limit = 0
  /\ photo = NoPhoto
  /\ client = None
  /\ func = ""
  /\ attempt = 0
  /\ retry_delay = 0
  /\ payload = <<>>
  /\ results = <<>>
  /\ trace = <<>>
  /\ console = <<>>
  /\ start_file = session_file
  /\ logged_out = FALSE
  /\ cmd = ""
  /\ peer_pc = "idle"
  /\ peer_ret = NoRet

\* an operation is invoked: its arguments are bound and its body is entered
Begin(o, entry, l, p) ==
  /\ pc = "idle"
  /\ op' = o
  /\ pc' = entry
  /\ stack' = <<"done">>
  /\ limit' = l
  /\ photo' = p
  /\ start_file' = session_file
  /\ UNCHANGED <<session_file, issued, _client, ret, client, func, attempt,
                 retry_delay, payload, results, trace, console, logged_out,
                 cmd, peer_pc, peer_ret>>

\* the operation has returned to its caller, in the same process
Finish ==
  /\ pc = "done"
  /\ pc' = "idle"
  /\ op' = "idle"
  /\ stack' = <<>>
  /\ ret' = NoRet
  /\ limit' = 0
  /\ photo' = NoPhoto
  /\ client' = None
  /\ func' = ""
  /\ attempt' = 0
  /\ retry_delay' = 0
  /\ payload' = <<>>
  /\ results' = <<>>
  /\ trace' = <<>>
  /\ console' = <<>>
  /\ start_file' = session_file
  /\ logged_out' = (op = "logout" /\ ret.kind = "return")
  /\ cmd' = ""
  /\ UNCHANGED <<session_file, issued, _client, peer_pc, peer_ret>>

\* the process exits; the next operation runs in a new process
Exit ==
  /\ pc = "idle"
  /\ _client.live
  /\ _client' = None
  /\ UNCHANGED <<session_file, issued, pc, stack, ret, op, limit, photo,
                 client, func, attempt, retry_delay, payload, results, trace,
                 console, start_file, logged_out, cmd, peer_pc, peer_ret>>

----------------------------------------------------------------------------
(* SessionManager.is_authenticated *)

ProbeResult_RateLimitOk(out) ==
  IF out \in {"ok", "RateLimitError"} THEN "True" ELSE "False"

\* client.account_info(); return True / except Exception: return False
ProbeResult(out) == IF out = "ok" THEN "True" ELSE "False"

is_authenticated_start ==
  Begin("is_authenticated", "ia_exists", 0, NoPhoto)

\* if not self.session_file.exists(): return False
is_authenticated_exists ==
  /\ pc = "ia_exists"
  /\ IF ~session_file.exists THEN Return("False") ELSE Goto("ia_load")
  /\ Log(<<FsEv("exists", IF session_file.exists THEN "True" ELSE "False")>>)
  /\ UNCHANGED <<session_file, issued, _client, op, limit, photo, client,
                 func, attempt, retry_delay, payload, results, console,
                 start_file, logged_out, cmd, peer_pc, peer_ret>>

\* client = Client(); client.load_settings(self.session_file)
is_authenticated_load ==
  /\ pc = "ia_load"
  /\ \E r \in ReadOutcomes(session_file) :
       /\ Log(<<FsEv("load_settings", r)>>)
       /\ IF r = "ok"
            THEN client' = Hydrated(session_file) /\ Goto("ia_probe")
            ELSE client' = NewClient /\ Return("False")
  /\ UNCHANGED <<session_file, issued, _client, op, limit, photo, func,
                 attempt, retry_delay, payload, results, console, start_file, logged_out, cmd, peer_pc, peer_ret>>

\* client.account_info(); return True / except Exception: return False
is_authenticated_probe ==
  /\ pc = "ia_probe"
  /\ \E out \in Outcomes :
       /\ Log(<<CallEv("account_info", out)>>)
       /\ Return(ProbeResult(out))
  /\ UNCHANGED <<session_file, issued, _client, op, limit, photo, client,
                 func, attempt, retry_delay, payload, results, console,
                 start_file, logged_out, cmd, peer_pc, peer_ret>>

----------------------------------------------------------------------------
(* SessionManager.get_client *)

\* the exception class of get_client's `raise LoginRequired("Not authenticated...")`
NotAuthenticatedError == "LoginRequired"

get_client_start ==
  Begin("get_client", "gc_check", 0, NoPhoto)

\* if not self.is_authenticated():
get_client_check ==
  /\ pc = "gc_check"
  /\ Call("ia_exists", "gc_after_ia")
  /\ UNCHANGED <<session_file, issued, _client, op, limit, photo, client,
                 func, attempt, retry_delay, payload, results, trace, console,
                 start_file, logged_out, cmd, peer_pc, peer_ret>>

\* raise LoginRequired("Not authenticated. Please login first.")
get_client_after_check ==
  /\ pc = "gc_after_ia"
  /\ IF ret.val = "False"
       THEN Raise(NotAuthenticatedError, "Not authenticated. Please login first.")
       ELSE Goto("gc_load")
  /\ UNCHANGED <<session_file, issued, _client, op, limit, photo, client,
                 func, attempt, retry_delay, payload, results, trace, console,
                 start_file, logged_out, cmd, peer_pc, peer_ret>>

\* client = Client(); client.load_settings(self.session_file)
get_client_load ==
  /\ pc = "gc_load"
  /\ \E r \in ReadOutcomes(session_file) :
       /\ Log(<<FsEv("load_settings", r)>>)
       /\ IF r = "ok"
            THEN client' = Hydrated(session_file) /\ Goto("gc_live")
            ELSE client' = NewClient /\ Raise(r, "local")
  /\ UNCHANGED <<session_file, issued, _client, op, limit, photo, func,
                 attempt, retry_delay, payload, results, console, start_file, logged_out, cmd, peer_pc, peer_ret>>

\* try: client.get_timeline_feed() except LoginRequired: error_message; raise
get_client_live ==
  /\ pc = "gc_live"
  /\ \E out \in Outcomes :
       /\ Log(<<CallEv("get_timeline_feed", out)>>)
       /\ IF out = "ok"
            THEN Return("client") /\ UNCHANGED console
            ELSE /\ Raise(out, "remote")
                 /\ IF out = "LoginRequired"
                      THEN Say(<<Msg("error", "Session expired. Please login again.")>>)
                      ELSE UNCHANGED console
  /\ UNCHANGED <<session_file, issued, _client, op, limit, photo, client,
                 func, attempt, retry_delay, payload, results, start_file, logged_out, cmd, peer_pc, peer_ret>>

----------------------------------------------------------------------------
(* InstaClient.client (property) *)

\* if self._client is None: self._client = self.session_manager.get_client()
client_property ==
  /\ pc = "prop_client"
  /\ IF _client.live THEN Return("client") ELSE Call("gc_check", "prop_set")
  /\ UNCHANGED <<session_file, issued, _client, op, limit, photo, client,
                 func, attempt, retry_delay, payload, results, trace, console,
                 start_file, logged_out, cmd, peer_pc, peer_ret>>

\* the assignment to self._client, or get_client's exception passing through
client_property_set ==
  /\ pc = "prop_set"
  /\ IF ret.kind = "raise"
       THEN Raise(ret.val, ret.msg) /\ UNCHANGED _client
       ELSE _client' = client /\ Return("client")
  /\ UNCHANGED <<session_file, issued, op, limit, photo, client, func,
                 attempt, retry_delay, payload, results, trace, console,
                 start_file, logged_out, cmd, peer_pc, peer_ret>>

----------------------------------------------------------------------------
(* InstaClient._retry_on_rate_limit *)

EnterRetry_Shared(fn, cont) ==
  /\ func' = fn
  /\ UNCHANGED <<attempt, retry_delay>>
  /\ Call("retry_call", cont)
  /\ Log(<<EnterEv(fn)>>)

\* the call self._retry_on_rate_limit(fn, ...): max_retries = 3; retry_delay = 5
EnterRetry(fn, cont) ==
  /\ func' = fn
  /\ attempt' = 0
  /\ retry_delay' = InitialDelay
  /\ Call("retry_call", cont)
  /\ Log(<<EnterEv(fn)>>)

\* one iteration of `for attempt in range(max_retries)`
retry_on_rate_limit ==
  /\ pc = "retry_call"
  /\ attempt < max_retries
  /\ \E out \in Outcomes :
     \E data \in IF out = "ok" THEN Payloads(func) ELSE {<<>>} :
       CASE out = "ok" ->
              /\ Log(<<CallEv(func, out)>>)
              /\ payload' = data
              /\ Return("ok")
              /\ UNCHANGED <<attempt, retry_delay, console>>
         [] IsRateLimit(out) /\ ShouldRetry(attempt) ->
              /\ Log(<<CallEv(func, out), SleepEv(retry_delay)>>)
              /\ Say(<<Msg("info", "Rate limited. Waiting")>>)
              /\ retry_delay' = NextDelay(retry_delay)
              /\ attempt' = attempt + 1
              /\ Goto("retry_call")
              /\ UNCHANGED payload
         [] IsRateLimit(out) /\ ~ShouldRetry(attempt) ->
              /\ Log(<<CallEv(func, out)>>)
              /\ Say(<<Msg("error", "Rate limit exceeded. Please try again later.")>>)
              /\ Raise(out, "remote")
              /\ UNCHANGED <<attempt, retry_delay, payload>>
         [] OTHER ->
              /\ Log(<<CallEv(func, out)>>)
              /\ Raise(out, "remote")
              /\ UNCHANGED <<attempt, retry_delay, payload, console>>
  /\ UNCHANGED <<session_file, issued, _client, op, limit, photo, client,
                 func, results, start_file, logged_out, cmd, peer_pc, peer_ret>>

----------------------------------------------------------------------------
(* The gateway operations of InstaClient *)

\* except Exception as e: error_message(...); raise
Fail(text) ==
  /\ Say(<<Msg("error", text)>>)
  /\ Raise(ret.val, ret.msg)

\* get_account_stats' handlers: except LoginRequired / except Exception
FailStats ==
  Fail(IF ret.val = "LoginRequired"
         THEN "Session expired. Please login again."
         ELSE "Failed to get account stats")

\* a remote call made on the handle directly, outside _retry_on_rate_limit
DirectCall(fn, okval, expired_text, failed_text) ==
  \E out \in Outcomes :
    /\ Log(<<CallEv(fn, out)>>)
    /\ IF out = "ok"
         THEN Return(okval) /\ UNCHANGED console
         ELSE /\ Raise(out, "remote")
              /\ Say(<<Msg("error", IF out = "LoginRequired" THEN expired_text
                                     ELSE failed_text)>>)

get_account_stats_start ==
  Begin("get_account_stats", "gas_client", 0, NoPhoto)

\* user_id = self.client.user_id
get_account_stats_client ==
  /\ pc = "gas_client"
  /\ Call("prop_client", "gas_user_info")
  /\ UNCHANGED <<session_file, issued, _client, op, limit, photo, client,
                 func, attempt, retry_delay, payload, results, trace, console,
                 start_file, logged_out, cmd, peer_pc, peer_ret>>

\* user_info = self.client.user_info(user_id); return {...}
get_account_stats_user_info ==
  /\ pc = "gas_user_info"
  /\ IF ret.kind = "raise"
       THEN FailStats /\ UNCHANGED trace
       ELSE DirectCall("user_info", "stats",
                       "Session expired. Please login again.",
                       "Failed to get account stats")
  /\ UNCHANGED <<session_file, issued, _client, op, limit, photo, client,
                 func, attempt, retry_delay, payload, results, start_file, logged_out, cmd, peer_pc, peer_ret>>

get_current_user_start ==
  Begin("get_current_user", "gcu_client", 0, NoPhoto)

\* user_id = self.client.user_id
get_current_user_client ==
  /\ pc = "gcu_client"
  /\ Call("prop_client", "gcu_user_info")
  /\ UNCHANGED <<session_file, issued, _client, op, limit, photo, client,
                 func, attempt, retry_delay, payload, results, trace, console,
                 start_file, logged_out, cmd, peer_pc, peer_ret>>

\* user_info = self.client.user_info(user_id); return {...}
get_current_user_user_info ==
  /\ pc = "gcu_user_info"
  /\ IF ret.kind = "raise"
       THEN Fail("Failed to get current user info") /\ UNCHANGED trace
       ELSE DirectCall("user_info", "user",
                       "Failed to get current user info",
                       "Failed to get current user info")
  /\ UNCHANGED <<session_file, issued, _client, op, limit, photo, client,
                 func, attempt, retry_delay, payload, results, start_file, logged_out, cmd, peer_pc, peer_ret>>

get_user_info_start ==
  Begin("get_user_info", "gui_client", 0, NoPhoto)

\* self.client, the first argument of the first wrapped call
get_user_info_client ==
  /\ pc = "gui_client"
  /\ Call("prop_client", "gui_user_id")
  /\ UNCHANGED <<session_file, issued, _client, op, limit, photo, client,
                 func, attempt, retry_delay, payload, results, trace, console,
                 start_file, logged_out, cmd, peer_pc, peer_ret>>

\* user_id = self._retry_on_rate_limit(self.client.user_id_from_username, username)
get_user_info_user_id ==
  /\ pc = "gui_user_id"
  /\ IF ret.kind = "raise"
       THEN /\ Fail("Failed to get user info")
            /\ UNCHANGED <<func, attempt, retry_delay, trace>>
       ELSE /\ EnterRetry("user_id_from_username", "gui_user_info")
            /\ UNCHANGED console
  /\ UNCHANGED <<session_file, issued, _client, op, limit, photo, client,
                 payload, results, start_file, logged_out, cmd, peer_pc, peer_ret>>

\* user_info = self._retry_on_rate_limit(self.client.user_info, user_id)
get_user_info_user_info ==
  /\ pc = "gui_user_info"
  /\ IF ret.kind = "raise"
       THEN /\ Fail("Failed to get user info")
            /\ UNCHANGED <<func, attempt, retry_delay, trace>>
       ELSE /\ EnterRetry("user_info", "gui_return")
            /\ UNCHANGED console
  /\ UNCHANGED <<session_file, issued, _client, op, limit, photo, client,
                 payload, results, start_file, logged_out, cmd, peer_pc, peer_ret>>

\* return {...}
get_user_info_return ==
  /\ pc = "gui_return"
  /\ IF ret.kind = "raise"
       THEN Fail("Failed to get user info")
       ELSE Return("user") /\ UNCHANGED console
  /\ UNCHANGED <<session_file, issued, _client, op, limit, photo, client,
                 func, attempt, retry_delay, payload, results, trace,
                 start_file, logged_out, cmd, peer_pc, peer_ret>>

search_users_start ==
  \E l \in Limits : Begin("search_users", "su_client", l, NoPhoto)

\* self.client, the first argument of the wrapped call
search_users_client ==
  /\ pc = "su_client"
  /\ Call("prop_client", "su_search")
  /\ UNCHANGED <<session_file, issued, _client, op, limit, photo, client,
                 func, attempt, retry_delay, payload, results, trace, console,
                 start_file, logged_out, cmd, peer_pc, peer_ret>>

\* users = self._retry_on_rate_limit(self.client.search_users, query)
search_users_search ==
  /\ pc = "su_search"
  /\ IF ret.kind = "raise"
       THEN /\ Fail("Failed to search users")
            /\ UNCHANGED <<func, attempt, retry_delay, trace>>
       ELSE /\ EnterRetry("search_users", "su_return")
            /\ UNCHANGED console
  /\ UNCHANGED <<session_file, issued, _client, op, limit, photo, client,
                 payload, results, start_file, logged_out, cmd, peer_pc, peer_ret>>

\* for user in users[:limit]: results.append(...); return results
search_users_return ==
  /\ pc = "su_return"
  /\ IF ret.kind = "raise"
       THEN Fail("Failed to search users") /\ UNCHANGED results
       ELSE /\ results' = SearchResults(payload, limit)
            /\ Return("list")
            /\ UNCHANGED console
  /\ UNCHANGED <<session_file, issued, _client, op, limit, photo, client,
                 func, attempt, retry_delay, payload, trace, start_file, logged_out, cmd, peer_pc, peer_ret>>

get_feed_start ==
  \E l \in Limits : Begin("get_feed", "gf_client", l, NoPhoto)

\* self.client, the first argument of the wrapped call
get_feed_client ==
  /\ pc = "gf_client"
  /\ Call("prop_client", "gf_fetch")
  /\ UNCHANGED <<session_file, issued, _client, op, limit, photo, client,
                 func, attempt, retry_delay, payload, results, trace, console,
                 start_file, logged_out, cmd, peer_pc, peer_ret>>

\* feed = self._retry_on_rate_limit(self.client.get_timeline_feed)
get_feed_fetch ==
  /\ pc = "gf_fetch"
  /\ IF ret.kind = "raise"
       THEN /\ Fail("Failed to get feed")
            /\ UNCHANGED <<func, attempt, retry_delay, trace>>
       ELSE /\ EnterRetry("get_timeline_feed", "gf_return")
            /\ UNCHANGED console
  /\ UNCHANGED <<session_file, issued, _client, op, limit, photo, client,
                 payload, results, start_file, logged_out, cmd, peer_pc, peer_ret>>

\* for media in feed.get('feed_items', [])[:limit]: if 'media_or_ad' in media: ...
get_feed_return ==
  /\ pc = "gf_return"
  /\ IF ret.kind = "raise"
       THEN Fail("Failed to get feed") /\ UNCHANGED results
       ELSE /\ results' = FeedPosts(payload, limit)
            /\ Return("list")
            /\ UNCHANGED console
  /\ UNCHANGED <<session_file, issued, _client, op, limit, photo, client,
                 func, attempt, retry_delay, payload, trace, start_file, logged_out, cmd, peer_pc, peer_ret>>

post_photo_start ==
  \E p \in Photos : Begin("post_photo", "pp_validate", 0, p)

\* the two local checks of post_photo, then info_message("Uploading photo")
post_photo_validate ==
  /\ pc = "pp_validate"
  /\ IF ~photo.exists
       THEN /\ Say(<<Msg("error", "Photo file not found")>>)
            /\ Return("False")
       ELSE IF ~SuffixAllowed(photo.suffix)
       THEN /\ Say(<<Msg("error", "Photo must be JPG, JPEG, or PNG format")>>)
            /\ Return("False")
       ELSE /\ Say(<<Msg("info", "Uploading photo")>>)
            /\ Call("prop_client", "pp_upload")
  /\ UNCHANGED <<session_file, issued, _client, op, limit, photo, client,
                 func, attempt, retry_delay, payload, results, trace,
                 start_file, logged_out, cmd, peer_pc, peer_ret>>

\* media = self._retry_on_rate_limit(self.client.photo_upload, photo_file, caption)
post_photo_upload ==
  /\ pc = "pp_upload"
  /\ IF ret.kind = "raise"
       THEN /\ Fail("Failed to post photo")
            /\ UNCHANGED <<func, attempt, retry_delay, trace>>
       ELSE /\ EnterRetry("photo_upload", "pp_return")
            /\ UNCHANGED console
  /\ UNCHANGED <<session_file, issued, _client, op, limit, photo, client,
                 payload, results, start_file, logged_out, cmd, peer_pc, peer_ret>>

\* if media: success_message; return True / else: error_message; return False
post_photo_return ==
  /\ pc = "pp_return"
  /\ IF ret.kind = "raise"
       THEN Fail("Failed to post photo")
       ELSE IF payload # <<>>
       THEN /\ Say(<<Msg("success", "Photo posted successfully! Media ID")>>)
            /\ Return("True")
       ELSE /\ Say(<<Msg("error", "Failed to post photo")>>)
            /\ Return("False")
  /\ UNCHANGED <<session_file, issued, _client, op, limit, photo, client,
                 func, attempt, retry_delay, payload, results, trace,
                 start_file, logged_out, cmd, peer_pc, peer_ret>>

----------------------------------------------------------------------------
(* SessionManager.login and SessionManager._save_session *)

\* client.login(username, password), when it succeeds: the client holds a
\* newly issued session on top of whatever settings it had loaded
LoggedIn(c, t) ==
  [live |-> TRUE, settings |-> [auth |-> t, base |-> c.settings.auth]]

\* the message login's handlers print for an exception of the fresh login
LoginFailureText(e) ==
  CASE e = "BadPassword" -> "Invalid password. Please check your credentials."
    [] e = "TwoFactorRequired" -> "Two-factor authentication is required."
    [] e = "ChallengeRequired" -> "Instagram requires additional verification."
    [] OTHER -> "Login failed"

\* mkdir(parents=True, exist_ok=True) of the session file's directory: the
\* directory of an existing file exists already
MkdirOutcomes(f) == IF f.exists THEN {"ok"} ELSE {"ok", "OSError"}

\* dump_settings: the file cannot be opened, is written, or is cut short
DumpOutcomes == {"ok", "OSError", "partial"}

ChmodOutcomes == {"ok", "OSError"}

\* the mode of the file after open(path, "w"): kept, or the default of a new file
ModeAfterWrite(f) == IF f.exists THEN f.mode ELSE "644"

\* the file after dump_settings wrote `content` to it
Written(f, content) ==
  [exists |-> TRUE, content |-> content, mode |-> ModeAfterWrite(f)]

\* self.session_file.chmod(0o600)
Chmod600(f) == [f EXCEPT !.mode = "600"]

FreshLoginFailed_Retry(out) == Goto("li_fresh")

FreshLoginFailed_SaveAnyway(out) == Call("sv_mkdir", "li_saved")

\* the `raise` that ends each handler of the fresh login
FreshLoginFailed(out) == Raise(out, "remote")

login_start ==
  /\ issued < MaxSessions
  /\ Begin("login", "li_start", 0, NoPhoto)

\* client = Client(); if self.session_file.exists():
login_exists ==
  /\ pc = "li_start"
  /\ client' = NewClient
  /\ Log(<<FsEv("exists", IF session_file.exists THEN "True" ELSE "False")>>)
  /\ IF session_file.exists THEN Goto("li_load") ELSE Goto("li_fresh")
  /\ UNCHANGED <<session_file, issued, _client, op, limit, photo, func,
                 attempt, retry_delay, payload, results, console, start_file, logged_out, cmd, peer_pc, peer_ret>>

\* client.load_settings(self.session_file); info_message("Found existing session")
login_load ==
  /\ pc = "li_load"
  /\ \E r \in ReadOutcomes(session_file) :
       /\ Log(<<FsEv("load_settings", r)>>)
       /\ IF r = "ok"
            THEN /\ client' = Hydrated(session_file)
                 /\ Say(<<Msg("info", "Found existing session, attempting to reuse...")>>)
                 /\ Goto("li_reuse")
            ELSE /\ Say(<<Msg("info", "Existing session invalid, creating new one...")>>)
                 /\ Goto("li_fresh")
                 /\ UNCHANGED client
  /\ UNCHANGED <<session_file, issued, _client, op, limit, photo, func,
                 attempt, retry_delay, payload, results, start_file, logged_out, cmd, peer_pc, peer_ret>>

\* client.login(username, password) on the loaded session; except Exception
login_reuse ==
  /\ pc = "li_reuse"
  /\ \E out \in Outcomes :
       /\ Log(<<CallEv("login", out)>>)
       /\ IF out = "ok"
            THEN /\ Say(<<Msg("success", "Logged in using existing session")>>)
                 /\ Return("client")
            ELSE /\ Say(<<Msg("info", "Existing session invalid, creating new one...")>>)
                 /\ Goto("li_fresh")
  /\ UNCHANGED <<session_file, issued, _client, op, limit, photo, client,
                 func, attempt, retry_delay, payload, results, start_file, logged_out, cmd, peer_pc, peer_ret>>

\* info_message("Logging in"); client.login(username, password); the handlers
login_fresh ==
  /\ pc = "li_fresh"
  /\ \E out \in Outcomes :
       /\ Log(<<CallEv("login", out)>>)
       /\ IF out = "ok"
            THEN /\ client' = LoggedIn(client, issued + 1)
                 /\ issued' = issued + 1
                 /\ Say(<<Msg("info", "Logging in to Instagram...")>>)
                 /\ Call("sv_mkdir", "li_saved")
            ELSE /\ Say(<<Msg("info", "Logging in to Instagram..."),
                          Msg("error", LoginFailureText(out))>>)
                 /\ FreshLoginFailed(out)
                 /\ UNCHANGED <<client, issued>>
  /\ UNCHANGED <<session_file, _client, op, limit, photo, func, attempt,
                 retry_delay, payload, results, start_file, logged_out, cmd, peer_pc, peer_ret>>

\* after self._save_session(client): success_message; self.client = client; return client
login_saved ==
  /\ pc = "li_saved"
  /\ IF ret.kind = "raise"
       THEN /\ Say(<<Msg("error", LoginFailureText(ret.val))>>)
            /\ Raise(ret.val, ret.msg)
       ELSE /\ Say(<<Msg("success", "Successfully logged in")>>)
            /\ Return("client")
  /\ UNCHANGED <<session_file, issued, _client, op, limit, photo, client,
                 func, attempt, retry_delay, payload, results, trace,
                 start_file, logged_out, cmd, peer_pc, peer_ret>>

\* except Exception as e: error_message("Failed to save session"), and no raise
SaveFailed ==
  /\ Say(<<Msg("error", "Failed to save session")>>)
  /\ Return("None")

\* self.session_file.parent.mkdir(parents=True, exist_ok=True)
save_session_mkdir ==
  /\ pc = "sv_mkdir"
  /\ \E r \in MkdirOutcomes(session_file) :
       /\ Log(<<FsEv("mkdir", r)>>)
       /\ IF r = "ok" THEN Goto("sv_dump") /\ UNCHANGED console ELSE SaveFailed
  /\ UNCHANGED <<session_file, issued, _client, op, limit, photo, client,
                 func, attempt, retry_delay, payload, results, start_file, logged_out, cmd, peer_pc, peer_ret>>

\* client.dump_settings(self.session_file)
save_session_dump ==
  /\ pc = "sv_dump"
  /\ \E r \in DumpOutcomes :
       /\ Log(<<FsEv("dump_settings", r)>>)
       /\ CASE r = "ok" ->
                 /\ session_file' = Written(session_file, client.settings)
                 /\ Goto("sv_chmod")
                 /\ UNCHANGED console
            [] r = "partial" ->
                 /\ session_file' = Written(session_file, Corrupt)
                 /\ SaveFailed
            [] OTHER ->
                 /\ SaveFailed
                 /\ UNCHANGED session_file
  /\ UNCHANGED <<issued, _client, op, limit, photo, client, func, attempt,
                 retry_delay, payload, results, start_file, logged_out, cmd, peer_pc, peer_ret>>

\* self.session_file.chmod(0o600); info_message("Session saved")
save_session_chmod ==
  /\ pc = "sv_chmod"
  /\ \E r \in ChmodOutcomes :
       /\ Log(<<FsEv("chmod", r)>>)
       /\ IF r = "ok"
            THEN /\ session_file' = Chmod600(session_file)
                 /\ Say(<<Msg("info", "Session saved")>>)
                 /\ Return("None")
            ELSE /\ SaveFailed
                 /\ UNCHANGED session_file
  /\ UNCHANGED <<issued, _client, op, limit, photo, client, func, attempt,
                 retry_delay, payload, results, start_file, logged_out, cmd, peer_pc, peer_ret>>

----------------------------------------------------------------------------
(* SessionManager.logout *)

\* self.session_file.unlink()
UnlinkOutcomes(f) == IF f.exists THEN {"ok", "OSError"} ELSE {"FileNotFoundError"}

LogoutAbsent_Raise ==
  /\ Say(<<Msg("error", "Failed to logout")>>)
  /\ Raise("FileNotFoundError", "local")

\* else: info_message("No active session found")
LogoutAbsent ==
  /\ Say(<<Msg("info", "No active session found")>>)
  /\ Return("None")

logout_start ==
  Begin("logout", "lo_exists", 0, NoPhoto)

\* if self.session_file.exists():
logout_exists ==
  /\ pc = "lo_exists"
  /\ Log(<<FsEv("exists", IF session_file.exists THEN "True" ELSE "False")>>)
  /\ IF session_file.exists
       THEN Goto("lo_unlink") /\ UNCHANGED console
       ELSE LogoutAbsent
  /\ UNCHANGED <<session_file, issued, _client, op, limit, photo, client,
                 func, attempt, retry_delay, payload, results, start_file,
                 logged_out, cmd, peer_pc, peer_ret>>

\* self.session_file.unlink(); success_message / except: error_message; raise
logout_unlink ==
  /\ pc = "lo_unlink"
  /\ \E r \in UnlinkOutcomes(session_file) :
       /\ Log(<<FsEv("unlink", r)>>)
       /\ IF r = "ok"
            THEN /\ session_file' = Absent
                 /\ Say(<<Msg("success", "Logged out successfully")>>)
                 /\ Return("None")
            ELSE /\ Say(<<Msg("error", "Failed to logout")>>)
                 /\ Raise(r, "local")
                 /\ UNCHANGED session_file
  /\ UNCHANGED <<issued, _client, op, limit, photo, client, func, attempt,
                 retry_delay, payload, results, start_file, logged_out, cmd, peer_pc, peer_ret>>

----------------------------------------------------------------------------
(* SessionManager.get_current_username *)

Swallows_OnlyLoginRequired(e) == e = "LoginRequired"

\* except Exception: return None
Swallows(e) == TRUE

\* the handler of get_current_username for an exception of class e
Absorb(e, m) == IF Swallows(e) THEN Return("None") ELSE Raise(e, m)

get_current_username_start ==
  Begin("get_current_username", "gcn_client", 0, NoPhoto)

\* client = self.get_client()
get_current_username_client ==
  /\ pc = "gcn_client"
  /\ Call("gc_check", "gcn_user_info")
  /\ UNCHANGED <<session_file, issued, _client, op, limit, photo, client,
                 func, attempt, retry_delay, payload, results, trace, console,
                 start_file, logged_out, cmd, peer_pc, peer_ret>>

\* user_id = client.user_id; user_info = client.user_info(user_id); return user_info.username
get_current_username_user_info ==
  /\ pc = "gcn_user_info"
  /\ IF ret.kind = "raise"
       THEN Absorb(ret.val, ret.msg) /\ UNCHANGED trace
       ELSE \E out \in Outcomes :
              /\ Log(<<CallEv("user_info", out)>>)
              /\ IF out = "ok" THEN Return("username") ELSE Absorb(out, "remote")
  /\ UNCHANGED <<session_file, issued, _client, op, limit, photo, client,
                 func, attempt, retry_delay, payload, results, console,
                 start_file, logged_out, cmd, peer_pc, peer_ret>>

----------------------------------------------------------------------------
(* The specification *)

Next ==
  \/ Finish
  \/ Exit
  \/ is_authenticated_start
  \/ is_authenticated_exists
  \/ is_authenticated_load
  \/ is_authenticated_probe
  \/ get_client_start
  \/ get_client_check
  \/ get_client_after_check
  \/ get_client_load
  \/ get_client_live
  \/ client_property
  \/ client_property_set
  \/ retry_on_rate_limit
  \/ get_account_stats_start
  \/ get_account_stats_client
  \/ get_account_stats_user_info
  \/ get_current_user_start
  \/ get_current_user_client
  \/ get_current_user_user_info
  \/ get_user_info_start
  \/ get_user_info_client
  \/ get_user_info_user_id
  \/ get_user_info_user_info
  \/ get_user_info_return
  \/ search_users_start
  \/ search_users_client
  \/ search_users_search
  \/ search_users_return
  \/ get_feed_start
  \/ get_feed_client
  \/ get_feed_fetch
  \/ get_feed_return
  \/ post_photo_start
  \/ post_photo_validate
  \/ post_photo_upload
  \/ post_photo_return
  \/ login_start
  \/ login_exists
  \/ login_load
  \/ login_reuse
  \/ login_fresh
  \/ login_saved
  \/ save_session_mkdir
  \/ save_session_dump
  \/ save_session_chmod
  \/ logout_start
  \/ logout_exists
  \/ logout_unlink
  \/ get_current_username_start
  \/ get_current_username_client
  \/ get_current_username_user_info

Spec == Init /\ [][Next]_vars

----------------------------------------------------------------------------
(* A second process running SessionManager.logout on the same session file *)

\* the variables of the first process
own == <<issued, _client, pc, stack, ret, op, limit, photo, client, func,
         attempt, retry_delay, payload, results, trace, console, start_file,
         logged_out, cmd>>

\* the second process ends its logout
PeerEnds(kind, val) ==
  /\ peer_pc' = "done"
  /\ peer_ret' = [kind |-> kind, val |-> val, msg |-> ""]

\* `instagram-cli logout` is run in another terminal
peer_logout_start ==
  /\ peer_pc = "idle"
  /\ peer_pc' = "lo_exists"
  /\ peer_ret' = NoRet
  /\ UNCHANGED <<session_file, own>>

\* if self.session_file.exists(): ... else: info_message("No active session found")
peer_logout_exists ==
  /\ peer_pc = "lo_exists"
  /\ IF session_file.exists
       THEN peer_pc' = "lo_unlink" /\ UNCHANGED peer_ret
       ELSE PeerEnds("return", "None")
  /\ UNCHANGED <<session_file, own>>

\* self.session_file.unlink(); success_message / except: error_message; raise
peer_logout_unlink ==
  /\ peer_pc = "lo_unlink"
  /\ \E r \in UnlinkOutcomes(session_file) :
       IF r = "ok"
         THEN session_file' = Absent /\ PeerEnds("return", "None")
         ELSE UNCHANGED session_file /\ PeerEnds("raise", r)
  /\ UNCHANGED own

\* the second process exits
peer_exit ==
  /\ peer_pc = "done"
  /\ pc = "idle"
  /\ peer_pc' = "idle"
  /\ peer_ret' = NoRet
  /\ UNCHANGED <<session_file, own>>

\* two processes on one session file: the first calls get_client, logout or
\* login, the second runs logout
NextRace ==
  \/ peer_logout_start
  \/ peer_logout_exists
  \/ peer_logout_unlink
  \/ peer_exit
  \/ Finish
  \/ is_authenticated_exists
  \/ is_authenticated_load
  \/ is_authenticated_probe
  \/ get_client_start
  \/ get_client_check
  \/ get_client_after_check
  \/ get_client_load
  \/ get_client_live
  \/ logout_start
  \/ logout_exists
  \/ logout_unlink
  \/ login_start
  \/ login_exists
  \/ login_load
  \/ login_reuse
  \/ login_fresh
  \/ login_saved
  \/ save_session_mkdir
  \/ save_session_dump
  \/ save_session_chmod

SpecRace == Init /\ [][NextRace]_vars

----------------------------------------------------------------------------
(* The command line: cli.py *)

Commands ==
  {"login", "logout", "stats", "whoami", "user", "search", "feed", "post"}

\* the commands decorated with @requires_auth
AuthCommands == Commands \ {"login", "logout"}

\* the operation a command calls, and the entry of its body
OpOf(c) ==
  CASE c = "login" -> "login"
    [] c = "logout" -> "logout"
    [] c = "stats" -> "get_account_stats"
    [] c = "whoami" -> "get_current_user"
    [] c = "user" -> "get_user_info"
    [] c = "search" -> "search_users"
    [] c = "feed" -> "get_feed"
    [] c = "post" -> "post_photo"

Entry(c) ==
  CASE c = "login" -> "li_start"
    [] c = "logout" -> "lo_exists"
    [] c = "stats" -> "gas_client"
    [] c = "whoami" -> "gcu_client"
    [] c = "user" -> "gui_client"
    [] c = "search" -> "su_client"
    [] c = "feed" -> "gf_client"
    [] c = "post" -> "pp_validate"

\* the text of each command's error_message in its `except Exception`
CliFailureText(c) ==
  CASE c = "login" -> "Login failed"
    [] c = "logout" -> "Logout failed"
    [] c = "stats" -> "Failed to get stats"
    [] c = "whoami" -> "Failed to get user info"
    [] c = "user" -> "Failed to get user info"
    [] c = "search" -> "Search failed"
    [] c = "feed" -> "Failed to get feed"
    [] c = "post" -> "Failed to post photo"

\* --limit of search and feed: any integer
CliLimits(c) == IF c \in {"search", "feed"} THEN Limits ELSE {0}

\* PHOTO of post: click.Path(exists=True)
CliPhotos(c) == IF c = "post" THEN {p \in Photos : p.exists} ELSE {NoPhoto}

\* raise click.Abort(): the process exits with a non-zero status
Abort == Raise("Abort", "cli")

\* a command is run in a new process, whose InstaClient() holds no client yet;
\* @requires_auth runs before the body
cli_start ==
  /\ pc = "idle"
  /\ _client' = None
  /\ \E c \in Commands : \E l \in CliLimits(c), p \in CliPhotos(c) :
       /\ c = "login" => issued < MaxSessions
       /\ cmd' = c
       /\ op' = OpOf(c)
       /\ limit' = l
       /\ photo' = p
       /\ IF c \in AuthCommands
            THEN pc' = "ia_exists" /\ stack' = <<"cli_auth", "done">>
            ELSE pc' = Entry(c) /\ stack' = <<"cli_after", "done">>
  /\ start_file' = session_file
  /\ UNCHANGED <<session_file, issued, ret, client, func, attempt,
                 retry_delay, payload, results, trace, console, logged_out, peer_pc,
                 peer_ret>>

\* requires_auth.wrapper: if not session_manager.is_authenticated(): print; Abort
cli_auth ==
  /\ pc = "cli_auth"
  /\ IF ret.val = "False"
       THEN /\ Say(<<Msg("error", "Not authenticated. Please run 'instagram-cli login' first.")>>)
            /\ Abort
       ELSE /\ Say(IF cmd = "feed"
                     THEN <<Msg("info", "Fetching posts from your feed...")>>
                     ELSE <<>>)
            /\ Call(Entry(cmd), "cli_after")
  /\ UNCHANGED <<session_file, issued, _client, op, limit, photo, client,
                 func, attempt, retry_delay, payload, results, trace,
                 start_file, logged_out, cmd, peer_pc, peer_ret>>

\* post: `else: error_message(...); raise click.Abort()` inside the try whose
\* `except Exception` catches click.Abort, a RuntimeError
PostRejected ==
  /\ Say(<<Msg("error", "Failed to post photo"),
           Msg("error", CliFailureText("post"))>>)
  /\ Abort

\* the rest of a command's body after its operation, and its `except Exception`
cli_after ==
  /\ pc = "cli_after"
  /\ CASE ret.kind = "raise" ->
            /\ Say(<<Msg("error", CliFailureText(cmd))>>)
            /\ Abort
       [] ret.kind # "raise" /\ cmd = "post" ->
            IF ret.val = "True"
              THEN Say(<<Msg("success", "Photo posted successfully!")>>) /\ Return("None")
              ELSE PostRejected
       [] ret.kind # "raise" /\ cmd \in {"search", "feed"} ->
            /\ Say(IF results = <<>>
                     THEN <<Msg("info", "Nothing found")>>
                     ELSE <<>>)
            /\ Return("None")
       [] OTHER ->
            /\ Return("None")
            /\ UNCHANGED console
  /\ UNCHANGED <<session_file, issued, _client, op, limit, photo, client,
                 func, attempt, retry_delay, payload, results, trace,
                 start_file, logged_out, cmd, peer_pc, peer_ret>>

\* the program as the command line drives it: one command per process
NextCLI ==
  \/ cli_start
  \/ cli_auth
  \/ cli_after
  \/ Finish
  \/ is_authenticated_exists
  \/ is_authenticated_load
  \/ is_authenticated_probe
  \/ get_client_check
  \/ get_client_after_check
  \/ get_client_load
  \/ get_client_live
  \/ client_property
  \/ client_property_set
  \/ retry_on_rate_limit
  \/ get_account_stats_client
  \/ get_account_stats_user_info
  \/ get_current_user_client
  \/ get_current_user_user_info
  \/ get_user_info_client
  \/ get_user_info_user_id
  \/ get_user_info_user_info
  \/ get_user_info_return
  \/ search_users_client
  \/ search_users_search
  \/ search_users_return
  \/ get_feed_client
  \/ get_feed_fetch
  \/ get_feed_return
  \/ post_photo_validate
  \/ post_photo_upload
  \/ post_photo_return
  \/ login_exists
  \/ login_load
  \/ login_reuse
  \/ login_fresh
  \/ login_saved
  \/ save_session_mkdir
  \/ save_session_dump
  \/ save_session_chmod
  \/ logout_exists
  \/ logout_unlink

SpecCLI == Init /\ [][NextCLI]_vars

----------------------------------------------------------------------------
(* Reading the history *)

Last(s) == s[Len(s)]

IsCall(e) == e.ev = "call"

CallsOf(t) == SelectSeq(t, IsCall)

EnterIdxs == {i \in 1..Len(trace) : trace[i].ev = "enter"}

HasEnter == EnterIdxs # {}

LastEnter == CHOOSE i \in EnterIdxs : \A j \in EnterIdxs : j <= i

\* the events of the latest invocation of _retry_on_rate_limit
Seg == SubSeq(trace, LastEnter + 1, Len(trace))

\* the positions to which _retry_on_rate_limit hands control back
WrapperConts == {"gui_user_info", "gui_return", "su_return", "gf_return", "pp_return"}

AtWrapperEnd == pc \in WrapperConts

RL == "RateLimitError"

SuccessSeg(fn, k) ==
  CASE k = 1 -> <<CallEv(fn, "ok")>>
    [] k = 2 -> <<CallEv(fn, RL), SleepEv(5), CallEv(fn, "ok")>>
    [] k = 3 -> <<CallEv(fn, RL), SleepEv(5), CallEv(fn, RL), SleepEv(10),
                  CallEv(fn, "ok")>>

ExhaustedSeg(fn) ==
  <<CallEv(fn, RL), SleepEv(5), CallEv(fn, RL), SleepEv(10), CallEv(fn, RL)>>

AllRateLimited(seg) ==
  \A i \in 1..Len(seg) : IsCall(seg[i]) => seg[i].out = RL

OtherError(e) == IsCall(e) /\ e.out \notin {"ok", RL}

GatewayOps ==
  {"get_account_stats", "get_current_user", "get_user_info", "search_users",
   "get_feed", "post_photo"}

IsLogin(e) == IsCall(e) /\ e.fn = "login"

LoginIdxs == {i \in 1..Len(trace) : IsLogin(trace[i])}

TerminalLoginErrors == {"BadPassword", "TwoFactorRequired", "ChallengeRequired"}

\* the login call made on the session loaded from the file
IsReuseAttempt(i) ==
  i = 3 /\ IsLogin(trace[3]) /\ trace[2] = FsEv("load_settings", "ok")

SaveFailedInTrace ==
  \E i \in 1..Len(trace) :
    /\ trace[i].ev = "fs"
    /\ trace[i].fn \in {"mkdir", "dump_settings", "chmod"}
    /\ trace[i].out # "ok"

MediaItems(page) == SelectIdx(page, 1)

UpperChar(c) ==
  CASE c = "j" -> "J"
    [] c = "p" -> "P"
    [] c = "g" -> "G"
    [] c = "e" -> "E"
    [] c = "n" -> "N"
    [] OTHER -> c

SameIgnoringCase(s, w) ==
  /\ Len(s) = Len(w)
  /\ \A i \in 1..Len(w) : s[i] \in {w[i], UpperChar(w[i])}

ClaimedExtensions ==
  {<<".", "j", "p", "g">>, <<".", "j", "p", "e", "g">>, <<".", "p", "n", "g">>}

ValidPhoto(p) ==
  p.exists /\ \E w \in ClaimedExtensions : SameIgnoringCase(p.suffix, w)

\* is_authenticated has just returned, to the shell or to get_client
IsAuthEnd == (op = "is_authenticated" /\ pc = "done") \/ pc = "gc_after_ia"

----------------------------------------------------------------------------
(* The claims *)

\* C1: when _retry_on_rate_limit ends after a successful attempt, it returns,
\* and its history is k - 1 rate-limited attempts, each followed by a sleep
\* of 5 then 10, and the successful k-th attempt, with k at most 3.
C1_RetryThenSuccess ==
  (AtWrapperEnd /\ Last(Seg).out = "ok") =>
    /\ ret = [kind |-> "return", val |-> "ok", msg |-> ""]
    /\ \E k \in 1..3 : Seg = SuccessSeg(func, k)

\* C1 witness: two rate-limited attempts, sleeps of 5 and 10, success on the third
C1_Witness ==
  AtWrapperEnd /\ Seg = SuccessSeg(func, 3) /\ ret.kind = "return"

\* C2: an invocation of _retry_on_rate_limit never makes more than 3 attempts,
\* and one whose attempts were all rate-limited ends by raising the rate-limit
\* error after exactly 3 attempts, the last one followed by no sleep, having
\* printed "Rate limit exceeded".
C2_ExhaustedAfterThree ==
  /\ HasEnter => Len(CallsOf(Seg)) <= 3
  /\ (AtWrapperEnd /\ AllRateLimited(Seg)) =>
       /\ Seg = ExhaustedSeg(func)
       /\ ret = [kind |-> "raise", val |-> RL, msg |-> "remote"]
       /\ Last(console) = Msg("error", "Rate limit exceeded. Please try again later.")

\* C2 witness: three rate-limited attempts and the error raised
C2_Witness ==
  AtWrapperEnd /\ Seg = ExhaustedSeg(func) /\ ret.kind = "raise"

\* C3: in an invocation of _retry_on_rate_limit, an attempt that fails with an
\* error other than the rate-limit error is the last event of the invocation
\* (no sleep, no further attempt), and the invocation raises that error.
C3_OtherErrorsPropagate ==
  HasEnter =>
    /\ \A i \in 1..Len(Seg) : OtherError(Seg[i]) => i = Len(Seg)
    /\ (Seg # <<>> /\ OtherError(Last(Seg))) =>
         /\ pc # "retry_call"
         /\ AtWrapperEnd =>
              ret = [kind |-> "raise", val |-> Last(Seg).out, msg |-> "remote"]

\* C3 witness: another error on the third attempt, after two rate-limited ones
C3_Witness ==
  /\ AtWrapperEnd
  /\ Len(Seg) = 5
  /\ Seg[1].out = RL
  /\ Last(Seg).out = "ClientError"
  /\ ret.kind = "raise"

\* C4 (as claimed): a gateway operation that holds its handle and ends with
\* the rate-limit error made 3 attempts with backoff before surfacing it.
C4_EveryRemoteCallRetried ==
  (/\ pc = "done"
   /\ op \in GatewayOps
   /\ _client.live
   /\ ret.kind = "raise"
   /\ ret.val = RL) =>
    /\ Len(trace) >= 5
    /\ SubSeq(trace, Len(trace) - 4, Len(trace)) = ExhaustedSeg(Last(trace).fn)

\* C5 (as claimed): a login that found a session file, failed to reuse it and
\* succeeded with the fresh login returns a handle and leaves the newly dumped
\* session in the file, in place of the old content.
C5_FallbackOverwritesSession ==
  (/\ pc = "done"
   /\ op = "login"
   /\ start_file.exists
   /\ Len(trace) >= 4
   /\ IsReuseAttempt(3)
   /\ trace[3].out # "ok"
   /\ trace[4] = CallEv("login", "ok")) =>
    /\ ret = [kind |-> "return", val |-> "client", msg |-> ""]
    /\ session_file.exists
    /\ session_file.content = client.settings
    /\ session_file.content # start_file.content

\* C6 (as claimed): within one login, no remote login call follows one that
\* failed with BadPassword, TwoFactorRequired or ChallengeRequired.
C6_TerminalNeverRetried ==
  op = "login" =>
    \A i \in LoginIdxs, j \in LoginIdxs :
      i < j => trace[i].out \notin TerminalLoginErrors

\* C6 (amended): within one login, a failure of the fresh-credential login
\* call ends the invocation with that error and no further remote login call;
\* only a failed reuse attempt is followed by another login call, the fresh
\* one, so that one invocation makes at most two remote login calls.
C6_FreshFailureIsFinal ==
  op = "login" =>
    /\ Cardinality(LoginIdxs) <= 2
    /\ \A i \in LoginIdxs :
         (trace[i].out # "ok" /\ ~IsReuseAttempt(i)) =>
           /\ i = Len(trace)
           /\ pc = "done"
           /\ ret = [kind |-> "raise", val |-> trace[i].out, msg |-> "remote"]
    /\ \A i \in LoginIdxs, j \in LoginIdxs :
         i < j => IsReuseAttempt(i) /\ trace[i].out # "ok"
    /\ (pc = "done" /\ Len(trace) >= 3 /\ IsReuseAttempt(3) /\ trace[3].out # "ok") =>
         Cardinality(LoginIdxs) = 2

\* C6 witness: the reuse attempt failed with BadPassword, the fresh login was
\* made and failed with a terminal error, and login raised it
C6_Witness ==
  /\ op = "login"
  /\ pc = "done"
  /\ Len(trace) = 4
  /\ IsReuseAttempt(3)
  /\ trace[3].out = "BadPassword"
  /\ IsLogin(trace[4])
  /\ trace[4].out \in TerminalLoginErrors
  /\ ret.kind = "raise"

\* C7 (as claimed): a login during which a step of _save_session failed does
\* not return a handle: the failure propagates to the caller.
C7_SaveFailurePropagates ==
  (pc = "done" /\ op = "login" /\ SaveFailedInTrace) => ret.kind = "raise"

\* C8 (as claimed): for limit >= 0, get_feed returns the first min(limit, m)
\* media items of the page, in order, m being the number of media items.
C8_FilterThenTruncate ==
  (pc = "done" /\ op = "get_feed" /\ ret.kind = "return" /\ limit >= 0) =>
    results = SubSeq(MediaItems(payload), 1, Min(limit, Len(MediaItems(payload))))

\* C9: post_photo with a missing file, or with a suffix that is not jpg, jpeg
\* or png in any letter case, makes no remote call and acquires no handle, and
\* ends by returning False after one error message.
C9_InvalidPhotoNoRemoteCall ==
  (op = "post_photo" /\ ~ValidPhoto(photo)) =>
    /\ trace = <<>>
    /\ pc \in {"pp_validate", "done"}
    /\ pc = "done" =>
         /\ ret = [kind |-> "return", val |-> "False", msg |-> ""]
         /\ Len(console) = 1
         /\ console[1].level = "error"

\* C9 witness: an existing .gif file was rejected
C9_Witness ==
  /\ op = "post_photo"
  /\ pc = "done"
  /\ photo.exists
  /\ photo.suffix = <<".", "g", "i", "f">>
  /\ ret.val = "False"

\* C10: is_authenticated never raises; it returns False without a remote call
\* when the file is absent; it returns True exactly when the file was loaded
\* and the probe succeeded, so a failed load or a failed probe gives False.
C10_IsAuthenticatedTotal ==
  IsAuthEnd =>
    /\ ret.kind = "return"
    /\ ret.val \in {"True", "False"}
    /\ ~start_file.exists =>
         (ret.val = "False" /\ trace = <<FsEv("exists", "False")>>)
    /\ ret.val = "True" <=>
         trace = <<FsEv("exists", "True"), FsEv("load_settings", "ok"),
                   CallEv("account_info", "ok")>>

\* C10 witness: the file was loaded and the probe failed with a rate-limit error
C10_Witness ==
  /\ IsAuthEnd
  /\ Len(trace) = 3
  /\ trace[3] = CallEv("account_info", RL)
  /\ ret.val = "False"

\* the history of an is_authenticated that answered False
NotAuthenticatedTrace ==
  \/ trace = <<FsEv("exists", "False")>>
  \/ /\ Len(trace) = 2
     /\ trace[2].fn = "load_settings"
     /\ trace[2].out # "ok"
  \/ /\ Len(trace) = 3
     /\ trace[3].fn = "account_info"
     /\ trace[3].out # "ok"

\* the liveness check of get_client reported an expired session
ExpiredTrace ==
  /\ Len(trace) = 5
  /\ trace[5] = CallEv("get_timeline_feed", "LoginRequired")

\* C11 (as claimed): get_client never calls the remote login; when
\* is_authenticated is false it fails with the not-authenticated error before
\* any liveness check; when the liveness check reports an expired session it
\* fails with an error of another kind than the not-authenticated error.
C11_DistinctFailureKinds ==
  (op = "get_client" /\ pc = "done") =>
    /\ \A i \in 1..Len(trace) : ~IsLogin(trace[i])
    /\ NotAuthenticatedTrace =>
         /\ ret.kind = "raise"
         /\ ret.val = NotAuthenticatedError
    /\ ExpiredTrace =>
         /\ ret.kind = "raise"
         /\ ret.val # NotAuthenticatedError

\* _save_session wrote to the session file during this login
WroteFile ==
  \E i \in 1..Len(trace) :
    /\ trace[i].ev = "fs"
    /\ trace[i].fn = "dump_settings"
    /\ trace[i].out \in {"ok", "partial"}

\* C12 (as claimed): once _save_session has ended after writing the session
\* file, normally or with a failure, the file is readable and writable by its
\* owner only; in particular a login that returns a handle leaves it so.
C12_OwnerOnlyAfterWrite ==
  (op = "login" /\ pc \in {"li_saved", "done"} /\ WroteFile) =>
    (session_file.exists => session_file.mode = "600")

\* the fresh login of this invocation succeeded
FreshLoginSucceeded ==
  \E i \in 1..Len(trace) : trace[i] = CallEv("login", "ok") /\ ~IsReuseAttempt(i)

\* this invocation ended by reusing the stored session
ReuseSucceeded ==
  Len(trace) = 3 /\ IsReuseAttempt(3) /\ trace[3].out = "ok"

\* C13: during a login the session file differs from what it was at the call
\* only if the fresh login has succeeded; a login that ends by reusing the
\* stored session, or that ends with an error, leaves the file's existence,
\* content and mode as they were.
C13_WritesOnlyAfterFreshLogin ==
  (op = "login") =>
    /\ (session_file # start_file) => FreshLoginSucceeded
    /\ (pc = "done" /\ (ReuseSucceeded \/ ret.kind = "raise")) =>
         session_file = start_file

C13_Witness ==
  /\ op = "login"
  /\ pc = "done"
  /\ ret.kind = "raise"
  /\ start_file.exists
  /\ Len(trace) = 4
  /\ IsReuseAttempt(3)
  /\ trace[3].out # "ok"
  /\ session_file = start_file

\* C14 (as claimed): the fresh login is made on a client that carries nothing
\* of the stored session, and the session it saves holds nothing of it.
C14_FallbackOnNewClient ==
  (op = "login") =>
    /\ (pc = "li_fresh") => client = NewClient
    /\ (pc = "done" /\ FreshLoginSucceeded /\ Last(trace) = FsEv("chmod", "ok")) =>
         session_file.content.base = NoBlob.auth

ErrorMessages == SelectSeq(console, LAMBDA m : m.level = "error")

RemoteCalls == CallsOf(trace)

\* C15: a logout that returns leaves no session file; with a file present it
\* returns only after unlinking it; with no file it returns without touching
\* the file system and without an error message.  Hence a logout right after
\* a logout returns and changes nothing, and an is_authenticated right after
\* a logout answers False without a remote call.
C15_LogoutIdempotent ==
  /\ (op = "logout" /\ pc = "done") =>
       /\ ret.kind = "return" => session_file = Absent
       /\ (ret.kind = "return" /\ start_file.exists) =>
            Last(trace) = FsEv("unlink", "ok")
       /\ ~start_file.exists =>
            /\ ret = [kind |-> "return", val |-> "None", msg |-> ""]
            /\ trace = <<FsEv("exists", "False")>>
            /\ ErrorMessages = <<>>
            /\ session_file = start_file
  /\ (logged_out /\ pc # "idle") => ~start_file.exists
  /\ (logged_out /\ op = "is_authenticated" /\ pc = "done") =>
       /\ ret.val = "False"
       /\ RemoteCalls = <<>>

\* the second of two logouts in a row has returned
C15_Witness ==
  /\ logged_out
  /\ op = "logout"
  /\ pc = "done"
  /\ ret.kind = "return"
  /\ session_file = Absent

\* get_client returned a client and the profile fetch on it succeeded
AllStepsSucceeded ==
  /\ Len(trace) = 6
  /\ trace[5] = CallEv("get_timeline_feed", "ok")
  /\ trace[6] = CallEv("user_info", "ok")

\* C16: get_current_username always returns; it returns the username when
\* get_client and the profile fetch both succeeded, and None after any
\* failure of either.
C16_UsernameOrNone ==
  (op = "get_current_username" /\ pc = "done") =>
    /\ ret.kind = "return"
    /\ ret.val = IF AllStepsSucceeded THEN "username" ELSE "None"

\* the profile fetch was rate limited and None came back
C16_Witness ==
  /\ op = "get_current_username"
  /\ pc = "done"
  /\ Len(trace) = 6
  /\ trace[6] = CallEv("user_info", RL)
  /\ ret = [kind |-> "return", val |-> "None", msg |-> ""]

\* a command has ended with click.Abort
CliFailed == cmd # "" /\ pc = "done" /\ ret.kind = "raise"

\* C17 (as claimed): a command that ends in an error has printed exactly one
\* error message.
C17_OneErrorMessage ==
  CliFailed => Len(ErrorMessages) = 1

\* C18 (as claimed): search_users returns the first min(max(limit, 0), n) of
\* the n users the remote search returned, in the remote order: none when
\* limit <= 0.
C18_FirstLimitUsers ==
  (op = "search_users" /\ pc = "done" /\ ret.kind = "return") =>
    results = SubSeq(payload, 1, Min(Max(limit, 0), Len(payload)))

\* the end of the invocation of _retry_on_rate_limit entered at trace[i]
SegEnd(i) ==
  IF \E j \in EnterIdxs : j > i
    THEN (CHOOSE j \in EnterIdxs : j > i /\ \A k \in EnterIdxs : k > i => j <= k) - 1
    ELSE Len(trace)

\* the events of the invocation of _retry_on_rate_limit entered at trace[i]
SegAt(i) == SubSeq(trace, i + 1, SegEnd(i))

SleepsOf(t) == SelectSeq(t, LAMBDA e : e.ev = "sleep")

\* the delays of a fresh policy: 5, 10
PolicyDelays == <<InitialDelay, 2 * InitialDelay>>

\* C19: every invocation of _retry_on_rate_limit starts at attempt 0 with a
\* delay of 5, makes at most 3 calls and sleeps 5 then 10, whatever earlier
\* invocations did; get_user_info makes at most two invocations, the id
\* resolution first, and enters the profile fetch only right after the id
\* resolution returned.
C19_FreshPolicyEachInvocation ==
  /\ (pc = "retry_call" /\ Last(trace).ev = "enter") =>
       /\ attempt = 0
       /\ retry_delay = InitialDelay
  /\ \A i \in EnterIdxs :
       /\ Len(CallsOf(SegAt(i))) <= max_retries
       /\ Len(SleepsOf(SegAt(i))) <= Len(PolicyDelays)
       /\ \A k \in 1..Len(SleepsOf(SegAt(i))) :
            SleepsOf(SegAt(i))[k] = SleepEv(PolicyDelays[k])
  /\ (op = "get_user_info") =>
       /\ Cardinality(EnterIdxs) <= 2
       /\ \A i \in EnterIdxs :
            IF trace[i].fn = "user_info"
              THEN i > 1 /\ trace[i - 1] = CallEv("user_id_from_username", "ok")
              ELSE /\ trace[i].fn = "user_id_from_username"
                   /\ \A j \in EnterIdxs : j >= i

\* both invocations of get_user_info were rate limited twice and succeeded
C19_Witness ==
  /\ op = "get_user_info"
  /\ pc = "done"
  /\ ret.kind = "return"
  /\ Cardinality(EnterIdxs) = 2
  /\ \A i \in EnterIdxs : SegAt(i) = SuccessSeg(trace[i].fn, 3)

\* a gateway operation ended because the remote service reported that the
\* session has expired
ExpiredDetected ==
  /\ op \in GatewayOps
  /\ pc = "done"
  /\ ret.kind = "raise"
  /\ ret.val = "LoginRequired"
  /\ IsCall(Last(trace))
  /\ Last(trace).out = "LoginRequired"

\* C20 (as claimed): once a gateway operation has ended with the remote
\* service's auth-expired error, the gateway holds no usable handle.
C20_ExpiredDropsHandle ==
  ExpiredDetected => ~_client.live

\* get_client's own load of the session, after is_authenticated answered
\* True, found the file gone
SecondLoadFoundNoFile ==
  /\ op = "get_client"
  /\ pc = "done"
  /\ Len(trace) = 4
  /\ trace[3] = CallEv("account_info", "ok")
  /\ trace[4] = FsEv("load_settings", "FileNotFoundError")

\* C21 (as claimed): when another process's logout removes the session file
\* between get_client's is_authenticated and its own load of the session,
\* get_client fails with the not-authenticated or the session-expired error,
\* not with an unclassified one.
C21_DeletionIsClassified ==
  SecondLoadFoundNoFile =>
    /\ ret.kind = "raise"
    /\ ret.val \in {NotAuthenticatedError, "LoginRequired"}

\* the logouts of both processes have ended
BothLogoutsEnded == op = "logout" /\ pc = "done" /\ peer_pc = "done"

\* C22 (as claimed): when the logouts of two processes have both ended,
\* neither has failed on the file being absent, both have returned and the
\* file is absent.
C22_ConcurrentLogoutsSucceed ==
  BothLogoutsEnded =>
    /\ ret.val # "FileNotFoundError"
    /\ peer_ret.val # "FileNotFoundError"
    /\ (start_file.exists /\ "OSError" \notin {ret.val, peer_ret.val}) =>
         /\ ret.kind = "return"
         /\ peer_ret.kind = "return"
         /\ session_file = Absent

====
